---- MODULE Spec2Model ----
(***************************************************************************)
(* Position monitoring engine of tentwentybot/monitor.py: PriceMonitor     *)
(* (two price sources behind one asyncio.Semaphore) and TradingMonitor     *)
(* (registry active_monitors, task table tasks, one _monitor_loop task per *)
(* token).                                                                 *)
(*                                                                         *)
(* The program runs on one asyncio event loop, so a coroutine runs without *)
(* interleaving from one suspension point to the next.  Every action below *)
(* is one such run: it resumes one coroutine at the await it is suspended  *)
(* on and executes the code up to the next await that really suspends.     *)
(* The code between two suspension points is written as operators that map *)
(* a record s of the program state to the record after the code ran.       *)
(*                                                                         *)
(* Prices are integers.  Multipliers are given in tenths (12 is 1.2), and  *)
(* tp_price and sl_price are kept in tenths of a price unit, so that       *)
(* entry_price * multiplier is exact; a fetched price p is compared as     *)
(* 10 * p.                                                                 *)
(***************************************************************************)
EXTENDS Integers, Sequences, FiniteSets, TLC

\* ---- bounds of the model ------------------------------------------------
MaxTasks == 2          \* monitor tasks created over a run
MaxTime == 2           \* last value of the clock
SemaphoreLimit == 1    \* permits of PriceMonitor.semaphore (SEMAPHORE_LIMIT, from the environment)

\* ---- program constants ---------------------------------------------------
MAX_RETRIES_DEFAULT == 3
POLL_INTERVAL == 5
BACKOFF_FLOOR == 1
BACKOFF_CAP == 60

\* ---- inputs ----------------------------------------------------------------
Tokens == {"A", "B"}
\* what a source reports as the price; 0 is what it reports for a token without a market
Prices == {0, 90, 100, 120}
\* a payload whose price is not a number: Decimal takes it (line 57, line 81)
\* and every comparison with it raises decimal.InvalidOperation
NaN == -1
\* what get_price can return when a source answered
Reports == Prices \cup {NaN}
\* (entry_price, tp_multiplier, sl_multiplier, max_duration) passed to start_monitoring
StartArgs ==
  { [entry_price |-> 100, tp_multiplier |-> 12, sl_multiplier |-> 9, max_duration |-> 1],
    \* a pair that puts sl_price above tp_price
    [entry_price |-> 100, tp_multiplier |-> 9, sl_multiplier |-> 12, max_duration |-> 1] }

TAKE_PROFIT == "Take Profit"
STOP_LOSS == "Stop Loss"
TIME_LIMIT == "Time limit exceeded"
MAX_RETRIES_REASON == "Max retries exceeded"
NO_REASON == "none"

VARIABLES
  active_monitors,  \* TradingMonitor.active_monitors: token -> config, defined on the registered tokens
  tasks,            \* TradingMonitor.tasks: token -> task id, defined on the tokens that have a task entry
  running,          \* TradingMonitor.running
  semaphore,        \* value of PriceMonitor.semaphore (free permits)
  sessions_closed,  \* PriceMonitor.close ran to its end
  moralis_key,      \* MORALIS_API_KEY is set
  birdeye_key,      \* BIRDEYE_API_KEY is set
  MAX_RETRIES,      \* MAX_RETRIES, read from the environment at import (line 26)
  T,                \* the _monitor_loop tasks created so far, in creation order
  now,              \* time.time()
  handler           \* where handle_telegram_command stands with a /trade command

vars == <<active_monitors, tasks, running, semaphore, sessions_closed,
          moralis_key, birdeye_key, MAX_RETRIES, T, now, handler>>

\* ---- helpers on dicts ------------------------------------------------------
Remove(f, k) == [x \in DOMAIN f \ {k} |-> f[x]]

Put(f, k, v) == [x \in DOMAIN f \cup {k} |-> IF x = k THEN v ELSE f[x]]

Min(a, b) == IF a < b THEN a ELSE b

NoConfig == [entry_price |-> 0, tp_price |-> 0, sl_price |-> 0, start_time |-> 0, max_duration |-> 0]

\* a task object as asyncio.create_task returns it, with the locals of its coroutine
NewTask(token) ==
  [token |-> token,        \* argument token_address
   pc |-> "new",           \* the await the coroutine is suspended on
   cancel |-> FALSE,       \* task.cancel() was called and CancelledError is not yet thrown in
   config |-> NoConfig,    \* local config
   retries |-> 0,          \* local retries
   backoff |-> BACKOFF_FLOOR, \* local backoff
   reason |-> NO_REASON,   \* argument reason of _safe_liquidate
   liq |-> 0,              \* history: calls of trader.execute_sell_all
   fails |-> 0,            \* history: price resolutions that returned None since the last price
   thread |-> FALSE]       \* the executor thread of a call of line 54 that was cancelled still runs

\* the program state the code operators work on
State ==
  [am |-> active_monitors, tk |-> tasks, run |-> running, sem |-> semaphore,
   closed |-> sessions_closed, T |-> T]

\* ---- async with self.semaphore (lines 49, 68) --------------------------------
\* __aenter__ once a permit is free
semaphore_enter(s) == [s EXCEPT !.sem = @ - 1]

\* asyncio.Semaphore.locked as acquire tests it on entry: no permit is free, or
\* another task waits for one and its wait is not cancelled.  A task that
\* releases and asks again at once (line 43 after line 40) queues behind the
\* waiters.  A permit that release hands to a waiter counts as free until the
\* waiter runs.
locked(s, id) ==
  \/ s.sem = 0
  \/ \E w \in 1..Len(s.T) :
       w # id /\ s.T[w].pc \in {"acq_m", "acq_b"} /\ ~s.T[w].cancel

\* semaphore_exit with the release skipped when the block is left by CancelledError
semaphore_exit_leaky(s, cancelled) ==
  IF cancelled THEN s ELSE [s EXCEPT !.sem = @ + 1]

\* __aexit__: the block was left by a return (cancelled = FALSE; the except
\* clauses turn every Exception into return None) or by CancelledError
semaphore_exit(s, cancelled) == [s EXCEPT !.sem = @ + 1]

\* stop_monitoring that forgets the task: it is neither popped nor cancelled
stop_monitoring_keeps_task(s, token) ==
  IF token \in DOMAIN s.am THEN [s EXCEPT !.am = Remove(@, token)] ELSE s

\* stop_monitoring that also clears the running flag, as stop_all does
stop_monitoring_clears_running(s, token) ==
  LET s1 == IF token \in DOMAIN s.am THEN [s EXCEPT !.am = Remove(@, token)] ELSE s
      s2 == IF token \in DOMAIN s1.tk
              THEN LET id == s1.tk[token]
                   IN [s1 EXCEPT !.tk = Remove(@, token),
                                 !.T[id].cancel = (s1.T[id].pc # "done")]
              ELSE s1
  IN [s2 EXCEPT !.run = FALSE]

\* ---- TradingMonitor.stop_monitoring (lines 199-206) ------------------------
stop_monitoring(s, token) ==
  LET s1 == IF token \in DOMAIN s.am THEN [s EXCEPT !.am = Remove(@, token)] ELSE s
  IN IF token \in DOMAIN s1.tk
       THEN LET id == s1.tk[token]
            IN [s1 EXCEPT !.tk = Remove(@, token),
                          \* task.cancel() does nothing on a finished task
                          !.T[id].cancel = (s1.T[id].pc # "done")]
       ELSE s1

\* the for loop of stop_all (lines 210-211) over the tokens in todo
RECURSIVE StopEach(_, _)
StopEach(s, todo) ==
  IF todo = {} THEN s
  ELSE LET token == CHOOSE x \in todo : TRUE
       IN StopEach(stop_monitoring(s, token), todo \ {token})

\* the coroutine of task id returns or dies of an exception: its locals are gone
Finish(s, id) ==
  [s EXCEPT !.T[id] = [NewTask(s.T[id].token) EXCEPT !.pc = "done", !.liq = s.T[id].liq,
                                                     !.thread = s.T[id].thread]]

\* TradingMonitor.stop_all (lines 208-213) awaited by task id (line 171).
\* PriceMonitor.close awaits the sessions' close(), which suspends or not with
\* the connections the session holds: suspends is either.  A task whose
\* cancellation is pending gets CancelledError at the first await that suspends.
stop_all(s, id, suspends) ==
  LET s1 == StopEach([s EXCEPT !.run = FALSE], DOMAIN s.am)
  IN IF suspends
       THEN IF s1.T[id].cancel THEN Finish(s1, id)
            ELSE [Finish(s1, id) EXCEPT !.T[id].pc = "close"]  \* no local is read again
       ELSE Finish([s1 EXCEPT !.closed = TRUE], id)   \* back in the loop: break

\* finally_ of a loop body that catches CancelledError as well (except
\* BaseException): the body then ends normally and the loop sleeps and goes on
finally_catches_cancel(s, id, suspends, pending) ==
  IF DOMAIN s.am = {}
    THEN stop_all(s, id, suspends)
    ELSE CASE pending = "break" -> Finish(s, id)
           [] pending = "continue" -> [s EXCEPT !.T[id].pc = "@while"]
           [] OTHER ->
                IF s.T[id].cancel THEN Finish(s, id)
                ELSE [s EXCEPT !.T[id].pc = "poll"]

\* the finally clause of the loop body (lines 168-172) and what follows it.
\* pending is how the try block was left: "break", "continue", "raise" (an
\* exception that except Exception does not catch) or "fall" (its end).
\* A break in a finally clause discards the exception in flight.
finally_(s, id, suspends, pending) ==
  IF DOMAIN s.am = {}
    THEN stop_all(s, id, suspends)
    ELSE CASE pending \in {"break", "raise"} -> Finish(s, id)
           [] pending = "continue" -> [s EXCEPT !.T[id].pc = "@while"]
           [] OTHER ->  \* line 173: await asyncio.sleep(POLL_INTERVAL)
                IF s.T[id].cancel THEN Finish(s, id)
                ELSE [s EXCEPT !.T[id].pc = "poll"]

\* _safe_liquidate up to the await of execute_sell_all (lines 189-192)
safe_liquidate_call(s, id, reason) ==
  [s EXCEPT !.T[id].pc = "sell", !.T[id].reason = reason, !.T[id].liq = @ + 1]

\* safe_liquidate_finally that never stops the monitor
safe_liquidate_never_stops(s, id, outcome) == s

\* safe_liquidate_finally with stop_monitoring at the end of the try block
\* instead of in a finally clause
safe_liquidate_stops_on_success(s, id, outcome) ==
  IF outcome = "ok" THEN stop_monitoring(s, s.T[id].token) ELSE s

\* _safe_liquidate from the return of execute_sell_all on (lines 193-197).
\* outcome is "ok" (it returned), "failed" (it raised, line 194 logs it) or
\* "cancelled" (CancelledError, which line 194 does not catch); the finally
\* clause runs in all three
safe_liquidate_finally(s, id, outcome) == stop_monitoring(s, s.T[id].token)

\* check_triggers with strict comparisons
check_triggers_strict(current_price, config) ==
  IF current_price = NaN THEN NO_REASON
  ELSE IF 10 * current_price > config.tp_price THEN TAKE_PROFIT
  ELSE IF 10 * current_price < config.sl_price THEN STOP_LOSS
  ELSE NO_REASON

\* check_triggers that takes a comparison that raised for a stop-loss hit
check_triggers_raise_stops(current_price, config) ==
  IF current_price = NaN THEN STOP_LOSS
  ELSE IF 10 * current_price >= config.tp_price THEN TAKE_PROFIT
  ELSE IF 10 * current_price <= config.sl_price THEN STOP_LOSS
  ELSE NO_REASON

\* the decision of _check_triggers (lines 177-185): the reason, or NO_REASON.
\* A comparison that raises is caught at line 186 and nothing is decided.
check_triggers(current_price, config) ==
  IF current_price = NaN THEN NO_REASON
  ELSE IF 10 * current_price >= config.tp_price THEN TAKE_PROFIT
  ELSE IF 10 * current_price <= config.sl_price THEN STOP_LOSS
  ELSE NO_REASON

\* next_backoff without the cap
next_backoff_uncapped(backoff) == backoff * 2

\* the backoff after a sleep (line 160)
next_backoff(backoff) == Min(backoff * 2, BACKOFF_CAP)

\* after_get_price that keeps retries and backoff when a price came
after_get_price_no_reset(s, id, suspends, found, current_price) ==
  IF ~found
    THEN LET retries == s.T[id].retries + 1
             s1 == [s EXCEPT !.T[id].retries = retries]
         IN IF retries >= MAX_RETRIES
              THEN safe_liquidate_call(s1, id, MAX_RETRIES_REASON)
              ELSE [s1 EXCEPT !.T[id].pc = "backoff"]
    ELSE LET reason == check_triggers(current_price, s.T[id].config)
         IN IF reason # NO_REASON
              THEN safe_liquidate_call(s, id, reason)
              ELSE finally_(s, id, suspends, "fall")

\* the loop body after get_price returned (lines 152-165)
after_get_price(s, id, suspends, found, current_price) ==
  IF ~found
    THEN LET retries == s.T[id].retries + 1
             s1 == [s EXCEPT !.T[id].retries = retries]
         IN IF retries >= MAX_RETRIES
              THEN safe_liquidate_call(s1, id, MAX_RETRIES_REASON)
              ELSE [s1 EXCEPT !.T[id].pc = "backoff"]
    ELSE LET s1 == [s EXCEPT !.T[id].retries = 0, !.T[id].backoff = BACKOFF_FLOOR]
             reason == check_triggers(current_price, s.T[id].config)
         IN IF reason # NO_REASON
              THEN safe_liquidate_call(s1, id, reason)
              ELSE finally_(s1, id, suspends, "fall")

\* PriceMonitor.get_price returns to the loop (line 46 to line 151)
get_price_return(s, id, suspends, found, current_price) ==
  after_get_price([s EXCEPT !.T[id].fails = IF found THEN 0 ELSE @ + 1],
                  id, suspends, found, current_price)

\* birdeye_return in which the failure of the first source stays the result of
\* get_price whatever the second source answers
birdeye_return_keeps_failure(s, id, suspends, found, current_price) ==
  get_price_return(semaphore_exit(s, FALSE), id, suspends, FALSE, 0)

\* the request of line 73 is over: the permit is released and the price, or None
\* after an exception (lines 77-87), is the result of get_price (lines 43-46)
birdeye_return(s, id, suspends, found, current_price) ==
  get_price_return(semaphore_exit(s, FALSE), id, suspends, found, current_price)

\* _get_birdeye_price with the permit held (lines 69-72)
birdeye_held(s, id, suspends) ==
  IF ~birdeye_key
    THEN get_price_return(semaphore_exit(s, FALSE), id, suspends, FALSE, 0)
    ELSE [s EXCEPT !.T[id].pc = "call_b"]

\* get_birdeye_price called with the permit of the first source still held (the
\* fallback nested inside the async with of line 49)
get_birdeye_price_holding(s, id, suspends) ==
  LET s1 == [s EXCEPT !.sem = @ - 1]
  IN IF locked(s1, id) THEN [s1 EXCEPT !.T[id].pc = "acq_b"]
     ELSE birdeye_held(semaphore_enter(s1), id, suspends)

\* _get_birdeye_price (line 68): async with self.semaphore
get_birdeye_price(s, id, suspends) ==
  IF locked(s, id) THEN [s EXCEPT !.T[id].pc = "acq_b"]
  ELSE birdeye_held(semaphore_enter(s), id, suspends)

\* _get_moralis_price with the permit held (lines 50-56); a missing key raises
\* ValueError, which line 60 turns into None, and get_price falls back (line 43)
moralis_held(s, id, suspends) ==
  IF ~moralis_key
    THEN get_birdeye_price(semaphore_exit(s, FALSE), id, suspends)
    ELSE [s EXCEPT !.T[id].pc = "call_m"]

\* get_price (line 40) into _get_moralis_price (line 49)
get_price(s, id, suspends) ==
  IF locked(s, id) THEN [s EXCEPT !.T[id].pc = "acq_m"]
  ELSE moralis_held(semaphore_enter(s), id, suspends)

\* the time check one second late
time_limit_reached_late(config) == now - config.start_time > config.max_duration + 1

\* the time check of the loop body (lines 145-146)
time_limit_reached(config) == now - config.start_time > config.max_duration

\* monitor_loop whose while condition leaves out self.running
monitor_loop_ignores_running(s, id, suspends) ==
  IF ~(s.T[id].token \in DOMAIN s.am)
    THEN Finish(s, id)
    ELSE IF time_limit_reached(s.T[id].config)
           THEN safe_liquidate_call(s, id, TIME_LIMIT)
           ELSE get_price(s, id, suspends)

\* the while condition and the loop body up to its first await (lines 143-151)
monitor_loop(s, id, suspends) ==
  IF ~(s.run /\ s.T[id].token \in DOMAIN s.am)
    THEN Finish(s, id)
    ELSE IF time_limit_reached(s.T[id].config)
           THEN safe_liquidate_call(s, id, TIME_LIMIT)
           ELSE get_price(s, id, suspends)

\* Continue that falls through to the poll sleep of line 173 instead
Continue_sleeps_poll(s, id, suspends) ==
  IF s.T[id].pc = "@while" THEN [s EXCEPT !.T[id].pc = "poll"] ELSE s

\* after a continue that passed the finally clause, the loop goes round
Continue(s, id, suspends) ==
  IF s.T[id].pc = "@while" THEN monitor_loop(s, id, suspends) ELSE s

\* ---- the state machine -----------------------------------------------------
Assign(s) ==
  /\ active_monitors' = s.am
  /\ tasks' = s.tk
  /\ running' = s.run
  /\ semaphore' = s.sem
  /\ sessions_closed' = s.closed
  /\ T' = s.T
  /\ UNCHANGED <<moralis_key, birdeye_key, MAX_RETRIES, now>>

Commit(s) == Assign(s) /\ UNCHANGED handler

TaskIds == 1..Len(T)

Suspended(id, pc) == id \in TaskIds /\ T[id].pc = pc /\ ~T[id].cancel

\* TradingMonitor.__init__ and PriceMonitor.__init__ (lines 32-37, 101-105)
Init ==
  /\ active_monitors = << >>
  /\ tasks = << >>
  /\ running = TRUE
  /\ semaphore = SemaphoreLimit
  /\ sessions_closed = FALSE
  /\ moralis_key \in BOOLEAN
  /\ birdeye_key \in BOOLEAN
  /\ MAX_RETRIES = MAX_RETRIES_DEFAULT
  /\ T = << >>
  /\ now = 0
  /\ handler = "idle"

\* start_monitoring without the test of line 114
start_monitoring_no_check(s, token, args) ==
  IF token = "" THEN s
  ELSE LET config == [entry_price |-> args.entry_price,
                      tp_price |-> args.entry_price * args.tp_multiplier,
                      sl_price |-> args.entry_price * args.sl_multiplier,
                      start_time |-> now,
                      max_duration |-> args.max_duration]
           id == Len(s.T) + 1
       IN [s EXCEPT !.am = Put(@, token, config),
                    !.T = Append(@, NewTask(token)),
                    !.tk = Put(@, token, id)]

\* the body of start_monitoring (lines 112-131); it has no await
start_monitoring(s, token, args) ==
  IF token = "" THEN s                       \* ValueError, caught at line 132
  ELSE IF token \in DOMAIN s.am THEN s       \* already monitoring
  ELSE LET config == [entry_price |-> args.entry_price,
                      tp_price |-> args.entry_price * args.tp_multiplier,
                      sl_price |-> args.entry_price * args.sl_multiplier,
                      start_time |-> now,
                      max_duration |-> args.max_duration]
           id == Len(s.T) + 1
       IN [s EXCEPT !.am = Put(@, token, config),
                    !.T = Append(@, NewTask(token)),
                    !.tk = Put(@, token, id)]

\* a call of start_monitoring
Start(token, args) ==
  /\ token = "" \/ token \in DOMAIN active_monitors \/ Len(T) < MaxTasks
  /\ LET s == start_monitoring(State, token, args)
     IN Commit(s)

\* a call of stop_monitoring from outside the monitor tasks
Stop(token) ==
  Commit(stop_monitoring(State, token))

\* a call of stop_all from outside the monitor tasks (lines 208-213)
StopAll ==
  LET s == StopEach([State EXCEPT !.run = FALSE], DOMAIN active_monitors)
  IN Commit([s EXCEPT !.closed = TRUE])

\* the first run of a task (lines 136-143)
TaskStart(id, suspends) ==
  /\ Suspended(id, "new")
  /\ LET token == T[id].token
     IN IF token \notin DOMAIN active_monitors
          THEN Commit(Finish(State, id))
          ELSE Commit(monitor_loop([State EXCEPT !.T[id].config = active_monitors[token]],
                                   id, suspends))

\* the semaphore lets a waiting _get_moralis_price in
AcquireMoralis(id, suspends) ==
  /\ Suspended(id, "acq_m")
  /\ semaphore > 0
  /\ Commit(moralis_held(semaphore_enter(State), id, suspends))

\* the executor call of line 54 returns a price, or raises (lines 57-65)
MoralisReturn(id, found, price, suspends) ==
  /\ Suspended(id, "call_m")
  /\ LET s == semaphore_exit(State, FALSE)
     IN IF found
          THEN Commit(get_price_return(s, id, suspends, TRUE, price))
          ELSE Commit(get_birdeye_price(s, id, suspends))

\* the semaphore lets a waiting _get_birdeye_price in
AcquireBirdeye(id, suspends) ==
  /\ Suspended(id, "acq_b")
  /\ semaphore > 0
  /\ Commit(birdeye_held(semaphore_enter(State), id, suspends))

\* the request of line 73 returns a price, or raises (lines 77-87)
BirdeyeReturn(id, found, price, suspends) ==
  /\ Suspended(id, "call_b")
  /\ Commit(birdeye_return(State, id, suspends, found, price))

\* the sleep of line 159 is over (lines 160-161)
BackoffWake(id, suspends) ==
  /\ Suspended(id, "backoff")
  /\ LET s == [State EXCEPT !.T[id].backoff = next_backoff(@)]
     IN Commit(Continue(finally_(s, id, suspends, "continue"), id, suspends))

\* the sleep of line 173 is over
PollWake(id, suspends) ==
  /\ Suspended(id, "poll")
  /\ Commit(monitor_loop(State, id, suspends))

\* execute_sell_all returns (ok) or raises; back in _safe_liquidate and the loop
SellReturn(id, ok, suspends) ==
  /\ Suspended(id, "sell")
  /\ LET s == safe_liquidate_finally(State, id, IF ok THEN "ok" ELSE "failed")
     IN Commit(finally_(s, id, suspends, IF T[id].reason \in {TAKE_PROFIT, STOP_LOSS} THEN "fall" ELSE "break"))

\* PriceMonitor.close returns to stop_all, and stop_all to the loop (line 172)
CloseReturn(id) ==
  /\ Suspended(id, "close")
  /\ Commit(Finish([State EXCEPT !.closed = TRUE], id))

\* the await of task id is cancelled in the middle of a price call.  The future
\* of run_in_executor (line 54) is cancelled, but the executor thread cannot be
\* interrupted and goes on with its request; the aiohttp request of line 73 is
\* closed with its connection.
abandon_call(s, id) ==
  IF s.T[id].pc = "call_m" THEN [s EXCEPT !.T[id].thread = TRUE] ELSE s

\* the event loop throws CancelledError into a task at the await it is suspended on
Cancelled(id, suspends) ==
  /\ id \in TaskIds
  /\ T[id].cancel
  /\ LET pc == T[id].pc
         s == [State EXCEPT !.T[id].cancel = FALSE]
     IN CASE pc \in {"new", "poll", "close"} -> Commit(Finish(s, id))
          [] pc \in {"acq_m", "acq_b", "backoff"} ->
               Commit(finally_(s, id, suspends, "raise"))
          [] pc \in {"call_m", "call_b"} ->      \* async with releases the permit
               Commit(finally_(semaphore_exit(abandon_call(s, id), TRUE), id, suspends, "raise"))
          [] pc = "sell" ->
               Commit(finally_(safe_liquidate_finally(s, id, "cancelled"),
                               id, suspends, "raise"))

\* the request of an abandoned executor thread comes to its end
ThreadEnds(id) ==
  /\ id \in TaskIds
  /\ T[id].thread
  /\ Commit([State EXCEPT !.T[id].thread = FALSE])

\* time passes
Tick ==
  /\ now < MaxTime
  /\ now' = now + 1
  /\ UNCHANGED <<active_monitors, tasks, running, semaphore, sessions_closed,
                 moralis_key, birdeye_key, MAX_RETRIES, T, handler>>

Next ==
  \/ \E token \in Tokens \cup {""}, args \in StartArgs : Start(token, args)
  \/ \E token \in Tokens : Stop(token)
  \/ StopAll
  \/ \E id \in TaskIds, suspends \in BOOLEAN : TaskStart(id, suspends)
  \/ \E id \in TaskIds, suspends \in BOOLEAN : AcquireMoralis(id, suspends)
  \/ \E id \in TaskIds, found \in BOOLEAN, price \in Reports, suspends \in BOOLEAN :
       MoralisReturn(id, found, price, suspends)
  \/ \E id \in TaskIds, suspends \in BOOLEAN : AcquireBirdeye(id, suspends)
  \/ \E id \in TaskIds, found \in BOOLEAN, price \in Reports, suspends \in BOOLEAN :
       BirdeyeReturn(id, found, price, suspends)
  \/ \E id \in TaskIds, suspends \in BOOLEAN : BackoffWake(id, suspends)
  \/ \E id \in TaskIds, suspends \in BOOLEAN : PollWake(id, suspends)
  \/ \E id \in TaskIds, ok \in BOOLEAN, suspends \in BOOLEAN : SellReturn(id, ok, suspends)
  \/ \E id \in TaskIds : CloseReturn(id)
  \/ \E id \in TaskIds, suspends \in BOOLEAN : Cancelled(id, suspends)
  \/ \E id \in TaskIds : ThreadEnds(id)
  \/ Tick

Spec == Init /\ [][Next]_vars

\* ---- what the properties speak of -------------------------------------------
Registered(token) == token \in DOMAIN active_monitors

\* the task the registry holds for the token has not finished
HasLiveTask(token) == token \in DOMAIN tasks /\ T[tasks[token]].pc # "done"

\* permits of the semaphore that are out
Outstanding == SemaphoreLimit - semaphore

InGuardedCall == {id \in TaskIds : T[id].pc \in {"call_m", "call_b"}}

\* C1: a monitor calls execute_sell_all at most once, and a monitor whose
\* trigger fired (it is in _safe_liquidate with the trigger's reason) has called
\* it exactly once.
C1_LiquidatesAtMostOnce ==
  \A id \in TaskIds :
    /\ T[id].liq <= 1
    /\ T[id].pc = "sell" => T[id].liq = 1 /\ T[id].reason # NO_REASON
    /\ T[id].reason # NO_REASON => T[id].pc = "sell"

\* a take-profit trigger fired and the sale was called once
C1_Witness ==
  \E id \in TaskIds :
    T[id].pc = "sell" /\ T[id].reason = TAKE_PROFIT /\ T[id].liq = 1 /\ ~T[id].cancel

\* C2: a token is in the registry if and only if the task kept for it is live.
C2_RegistryIffLiveTask ==
  \A token \in Tokens : Registered(token) <=> HasLiveTask(token)

\* C3: a call of start_monitoring for a registered token changes nothing: the
\* entry and its task stay as they are and no task is spawned for the token.
C3_SecondStartRejected ==
  [][/\ \A token \in Tokens, args \in StartArgs :
          Registered(token) /\ Start(token, args)
            => UNCHANGED <<active_monitors, tasks, T, running, semaphore>>
     /\ Len(T') > Len(T) => ~Registered(T'[Len(T')].token)
     /\ \A token \in Tokens :
          Registered(token) /\ Registered(token)'
            => active_monitors'[token] = active_monitors[token]
               /\ tasks'[token] = tasks[token]]_vars

\* one monitor of the token is registered and has run, and the other token's start
\* came later
C3_Witness ==
  \E token \in Tokens :
    /\ Registered(token)
    /\ T[tasks[token]].pc \in {"call_m", "poll", "backoff"}
    /\ Cardinality({id \in TaskIds : T[id].token = token}) = 1

\* C4: a position that is registered and was never stopped gets liquidated.  A
\* finished task never runs again, so the claim implies that no registered token
\* has a task that finished without calling execute_sell_all.
C4_RegisteredIsLiquidated ==
  \A token \in Tokens :
    Registered(token) /\ token \in DOMAIN tasks
      => ~(T[tasks[token]].pc = "done" /\ T[tasks[token]].liq = 0)

\* C5: the reason "Max retries exceeded" is used exactly when get_price has
\* returned None MAX_RETRIES times in a row; a price in between starts the count
\* and the backoff again.
C5_MaxRetriesReason ==
  \A id \in TaskIds :
    /\ T[id].reason = MAX_RETRIES_REASON => T[id].fails = MAX_RETRIES
    /\ T[id].fails >= MAX_RETRIES => T[id].pc = "sell" /\ T[id].reason = MAX_RETRIES_REASON
    /\ T[id].retries = T[id].fails
    /\ T[id].fails = 0 => T[id].backoff = BACKOFF_FLOOR

\* the third failure in a row liquidated
C5_Witness ==
  \E id \in TaskIds :
    T[id].pc = "sell" /\ T[id].reason = MAX_RETRIES_REASON /\ T[id].fails = MAX_RETRIES

\* C6: a fetched price at or above tp_price liquidates with "Take Profit", also
\* when it is at or below sl_price as well; otherwise a price at or below sl_price
\* liquidates with "Stop Loss"; a price strictly between the two holds, and the
\* task sleeps the poll interval.
C6_TriggerDecision ==
  [][\A id \in TaskIds, price \in Prices, suspends \in BOOLEAN :
       MoralisReturn(id, TRUE, price, suspends) \/ BirdeyeReturn(id, TRUE, price, suspends)
         => LET config == T[id].config
                after == T'[id]
            IN IF 10 * price >= config.tp_price
                 THEN after.pc = "sell" /\ after.reason = TAKE_PROFIT /\ after.liq = T[id].liq + 1
               ELSE IF 10 * price <= config.sl_price
                 THEN after.pc = "sell" /\ after.reason = STOP_LOSS /\ after.liq = T[id].liq + 1
               ELSE after.pc = "poll" /\ after.reason = NO_REASON /\ after.liq = T[id].liq]_vars

\* take profit won on a pair of bounds that a price satisfies both
C6_Witness ==
  \E id \in TaskIds :
    /\ T[id].pc = "sell" /\ T[id].reason = TAKE_PROFIT
    /\ T[id].config.sl_price >= T[id].config.tp_price

\* a task comes to the while condition of its loop and finds it true
EntersIteration(id, suspends) ==
  /\ PollWake(id, suspends) \/ BackoffWake(id, suspends) \/ TaskStart(id, suspends)
  /\ running /\ Registered(T[id].token)

\* the config the iteration reads
IterationConfig(id) ==
  IF T[id].pc = "new" THEN active_monitors[T[id].token] ELSE T[id].config

Elapsed(id) == now - IterationConfig(id).start_time

\* C7 as claimed: an iteration that starts when the elapsed time has reached
\* max_duration liquidates with "Time limit exceeded", whatever the price.
C7_ReachedLimitLiquidates ==
  [][\A id \in TaskIds, suspends \in BOOLEAN :
       EntersIteration(id, suspends) /\ Elapsed(id) >= IterationConfig(id).max_duration
         => T'[id].pc = "sell" /\ T'[id].reason = TIME_LIMIT]_vars

\* C7 as amended: an iteration that starts when the elapsed time is greater than
\* max_duration liquidates with "Time limit exceeded" and asks no price.
C7_ExceededLimitLiquidates ==
  [][\A id \in TaskIds, suspends \in BOOLEAN :
       EntersIteration(id, suspends) /\ Elapsed(id) > IterationConfig(id).max_duration
         => T'[id].pc = "sell" /\ T'[id].reason = TIME_LIMIT /\ T'[id].liq = T[id].liq + 1]_vars

\* a task liquidated for the time limit
C7_Witness ==
  \E id \in TaskIds :
    /\ T[id].pc = "sell" /\ T[id].reason = TIME_LIMIT
    /\ now - T[id].config.start_time > T[id].config.max_duration

\* the phases of a monitor: Stopped once it is out of the task table, cancelled
\* or finished; Liquidating while it awaits execute_sell_all; Active otherwise
Stopped(id) ==
  \/ T[id].pc = "done"
  \/ T[id].cancel
  \/ ~(T[id].token \in DOMAIN tasks /\ tasks[T[id].token] = id)

Liquidating(id) == ~Stopped(id) /\ T[id].pc = "sell"

\* C8: a Stopped monitor stays Stopped and does nothing but end (no price query,
\* no evaluation, no call of execute_sell_all); a Liquidating monitor stays so
\* or becomes Stopped.
C8_PhasesOnlyAdvance ==
  [][\A id \in TaskIds :
       /\ Stopped(id)
            => /\ Stopped(id)'
               /\ \/ T'[id] = T[id]
                  \/ T'[id].pc \in {"done", "close"} /\ T'[id].liq = T[id].liq
       /\ Liquidating(id) => Liquidating(id)' \/ Stopped(id)']_vars

\* a monitor stopped from outside while its price call is in flight
C8_Witness ==
  \E id \in TaskIds : T[id].pc \in {"call_m", "call_b"} /\ T[id].cancel /\ Stopped(id)

\* C9: when execute_sell_all comes back, with a result or with an exception, the
\* token leaves the registry and the task table, and the task ends having called
\* it once.
C9_StoppedAfterSale ==
  [][\A id \in TaskIds, ok \in BOOLEAN, suspends \in BOOLEAN :
       SellReturn(id, ok, suspends)
         => /\ ~Registered(T[id].token)'
            /\ T[id].token \notin DOMAIN tasks'
            /\ T'[id].pc \in {"done", "close"}
            /\ T'[id].liq = 1]_vars

\* a monitor ended after its sale and its token is out of the registry
C9_Witness ==
  \E id \in TaskIds :
    T[id].pc = "done" /\ T[id].liq = 1 /\ ~Registered(T[id].token)

\* C10: the permits out are between 0 and the limit and are exactly those of the
\* tasks inside a guarded price call, so none is out once every task has ended.
C10_PermitsMatchCalls ==
  /\ Outstanding >= 0
  /\ Outstanding <= SemaphoreLimit
  /\ Outstanding = Cardinality(InGuardedCall)
  /\ (\A id \in TaskIds : T[id].pc = "done") => Outstanding = 0

\* every task has ended, one of them cancelled, and no permit is out
C10_Witness ==
  /\ Len(T) = MaxTasks
  /\ \A id \in TaskIds : T[id].pc = "done"
  /\ \E id \in TaskIds : T[id].liq = 0
  /\ Outstanding = 0

\* ---- scheduling -------------------------------------------------------------
\* the steps of task id that the event loop takes by itself: a ready task is run,
\* a sleep ends, a free permit is handed on, a pending CancelledError is thrown
\* in, the sessions close.  The request of line 73 ends as well: the code sets
\* no timeout, but it is made on an aiohttp.ClientSession built with the
\* defaults (line 35), whose total timeout raises into line 85.  The answers of
\* the executor call of line 54 and of execute_sell_all are not among these
\* steps: nothing bounds them.
TaskStep(id) ==
  \/ \E suspends \in BOOLEAN :
       \/ TaskStart(id, suspends)
       \/ AcquireMoralis(id, suspends)
       \/ AcquireBirdeye(id, suspends)
       \/ BackoffWake(id, suspends)
       \/ PollWake(id, suspends)
       \/ Cancelled(id, suspends)
       \/ \E found \in BOOLEAN, price \in Reports : BirdeyeReturn(id, found, price, suspends)
  \/ CloseReturn(id)

\* the program under an event loop that runs every task that can run
FairSpec == Spec /\ \A id \in 1..MaxTasks : WF_vars(TaskStep(id))

InMoralisCall(id) == id \in TaskIds /\ T[id].pc = "call_m"

WaitsForPermit(id) == id \in TaskIds /\ T[id].pc \in {"acq_m", "acq_b"}

\* C11: a task inside the Moralis call leaves it (and gives its permit back)
\* whether the source answers or not, and a task that waits for a permit gets on.
C11_PermitEventuallyReleased ==
  \A id \in 1..MaxTasks :
    /\ InMoralisCall(id) ~> ~InMoralisCall(id)
    /\ WaitsForPermit(id) ~> ~WaitsForPermit(id)

\* C12: a lookup that meets a missing credential ends the monitor: with
\* MORALIS_API_KEY unset, the first lookup of every monitor meets it, so no
\* monitor goes on to the second source, sleeps a backoff or a poll interval,
\* or liquidates for a reason that follows a lookup.
C12_MissingKeyEndsMonitor ==
  ~moralis_key =>
    \A id \in TaskIds :
      /\ T[id].pc \notin {"acq_b", "call_b", "backoff", "poll"}
      /\ T[id].reason \in {NO_REASON, TIME_LIMIT}

\* C13: a source that reports a price of zero or less has failed: the step in
\* which such a report arrives evaluates no trigger on it (no Take Profit, no
\* Stop Loss, no hold followed by the poll sleep); the next source or the retry
\* path is taken instead.
C13_NonPositivePriceIsFailure ==
  [][\A id \in TaskIds, price \in Prices, suspends \in BOOLEAN :
       /\ price <= 0
       /\ MoralisReturn(id, TRUE, price, suspends) \/ BirdeyeReturn(id, TRUE, price, suspends)
       => T'[id].reason \notin {TAKE_PROFIT, STOP_LOSS} /\ T'[id].pc # "poll"]_vars

\* a step that runs the body of stop_all up to its await (lines 209-212)
RunsStopAll ==
  \/ StopAll
  \/ running /\ ~running'
  \/ \E id \in TaskIds : T[id].pc # "close" /\ T'[id].pc = "close"

InPriceQuery(task) == task.pc \in {"acq_m", "call_m", "acq_b", "call_b"}

C15_StopIsIdempotent ==
  \A token \in Tokens :
    LET once == stop_monitoring(State, token)
    IN /\ ~Registered(token) => once = State
       /\ stop_monitoring(once, token) = once

\* one token was stopped while its monitor worked and the other is monitored
C15_Witness ==
  \E token \in Tokens, id \in TaskIds :
    /\ ~Registered(token) /\ T[id].token = token /\ T[id].cancel
    /\ \E other \in Tokens : Registered(other) /\ HasLiveTask(other)

\* the four awaits a monitor is suspended on between its steps
AtSuspensionPoint(id) == T[id].pc \in {"acq_m", "acq_b", "call_m", "call_b", "poll", "backoff"}

\* the monitor was cancelled, or has ended or is ending
Interrupted(id) == T[id].cancel \/ T[id].pc \in {"done", "close"}

\* C16: stop_monitoring called from outside for a token whose monitor is
\* suspended waiting for a permit, in a price call, in the poll sleep or in the
\* backoff sleep interrupts that monitor: from then on it starts no price query
\* and calls execute_sell_all no more, and its next step ends it.
C16_StopInterrupts ==
  [][\A id \in TaskIds :
       /\ \A token \in Tokens :
            /\ Stop(token) /\ token \in DOMAIN tasks /\ tasks[token] = id
            /\ AtSuspensionPoint(id)
            => T'[id].cancel /\ T'[id].pc = T[id].pc
       /\ Interrupted(id)
            => /\ Interrupted(id)'
               /\ T'[id].liq = T[id].liq
               /\ InPriceQuery(T'[id]) => T'[id].pc = T[id].pc
       /\ T[id].cancel /\ T'[id] # T[id] => T'[id].pc \in {"done", "close"}]_vars

\* a monitor that was stopped while it waited for a permit has ended without a sale
C16_Witness ==
  \E id \in TaskIds :
    /\ T[id].pc = "acq_m" /\ T[id].cancel
    /\ ~Registered(T[id].token)
    /\ \E other \in TaskIds : T[other].pc = "call_m" /\ ~T[other].cancel

\* ---- one monitor, its retries and its backoff ---------------------------------
\* largest MAX_RETRIES the environment sets
MaxRetriesLimit == 8

\* as Init, with MAX_RETRIES as the environment sets it
InitBackoff ==
  /\ active_monitors = << >>
  /\ tasks = << >>
  /\ running = TRUE
  /\ semaphore = SemaphoreLimit
  /\ sessions_closed = FALSE
  /\ moralis_key \in BOOLEAN
  /\ birdeye_key \in BOOLEAN
  /\ MAX_RETRIES \in 1..MaxRetriesLimit
  /\ T = << >>
  /\ now = 0
  /\ handler = "idle"

\* one position is started and its monitor runs alone, within max_duration and
\* with no stop from outside
NextBackoff ==
  \/ \E args \in StartArgs : Len(T) = 0 /\ Start("A", args)
  \/ \E id \in TaskIds, suspends \in BOOLEAN : TaskStart(id, suspends)
  \/ \E id \in TaskIds, found \in BOOLEAN, price \in Reports, suspends \in BOOLEAN :
       MoralisReturn(id, found, price, suspends)
  \/ \E id \in TaskIds, found \in BOOLEAN, price \in Reports, suspends \in BOOLEAN :
       BirdeyeReturn(id, found, price, suspends)
  \/ \E id \in TaskIds, suspends \in BOOLEAN : BackoffWake(id, suspends)
  \/ \E id \in TaskIds, suspends \in BOOLEAN : PollWake(id, suspends)
  \/ \E id \in TaskIds, ok \in BOOLEAN, suspends \in BOOLEAN : SellReturn(id, ok, suspends)

BackoffSpec == InitBackoff /\ [][NextBackoff]_vars

\* C17: the delay a monitor sleeps after its i-th failed resolution in a row
\* (i < MAX_RETRIES) is min(1 * 2^(i-1), 60), and after a price the next delay
\* is 1 again.
C17_BackoffSequence ==
  \A id \in TaskIds :
    /\ T[id].pc = "backoff"
         => /\ T[id].fails \in 1..(MAX_RETRIES - 1)
            /\ T[id].backoff = Min(BACKOFF_FLOOR * 2^(T[id].fails - 1), BACKOFF_CAP)
    /\ T[id].fails = 0 => T[id].backoff = BACKOFF_FLOOR

\* the seventh failure in a row sleeps the ceiling
C17_Witness ==
  \E id \in TaskIds :
    T[id].pc = "backoff" /\ T[id].fails = 7 /\ T[id].backoff = BACKOFF_CAP

\* C18: when the first source has failed and the second one answers with a
\* price, the resolution is a success: retries is 0 and backoff 1 afterwards,
\* whatever they were, and the triggers are evaluated on that price.
C18_FallbackCountsAsSuccess ==
  [][\A id \in TaskIds, price \in Prices, suspends \in BOOLEAN :
       price > 0 /\ BirdeyeReturn(id, TRUE, price, suspends)
         => /\ T'[id].retries = 0 /\ T'[id].fails = 0
            /\ T'[id].backoff = BACKOFF_FLOOR
            /\ T'[id].reason = check_triggers(price, T[id].config)
            /\ T'[id].pc = IF T'[id].reason = NO_REASON THEN "poll" ELSE "sell"]_vars

\* a monitor holds after a price that only the second source can have given,
\* without a failure counted
C18_Witness ==
  /\ ~moralis_key
  /\ \E id \in TaskIds : T[id].pc = "poll" /\ T[id].retries = 0 /\ ~T[id].cancel

\* C19: every entry of the registry has sl_price < entry_price < tp_price (the
\* bounds are kept in tenths, so entry_price is taken ten times).
C19_BoundsOrdered ==
  \A token \in Tokens :
    Registered(token)
      => LET config == active_monitors[token]
         IN config.sl_price < 10 * config.entry_price
            /\ 10 * config.entry_price < config.tp_price

\* C20: the price bounds are looked at before the time limit, so a monitor
\* gets the reason "Time limit exceeded" only in a step that has a fetched
\* price in hand and finds it strictly between sl_price and tp_price.
C20_TriggersBeforeTimeLimit ==
  [][\A id \in TaskIds :
       T[id].reason # TIME_LIMIT /\ T'[id].reason = TIME_LIMIT
         => \E price \in Prices, suspends \in BOOLEAN :
              /\ MoralisReturn(id, TRUE, price, suspends)
                   \/ BirdeyeReturn(id, TRUE, price, suspends)
              /\ check_triggers(price, T[id].config) = NO_REASON]_vars

\* the price that came back in this step of task id is price
PriceReturned(id, price) ==
  \E suspends \in BOOLEAN :
    MoralisReturn(id, TRUE, price, suspends) \/ BirdeyeReturn(id, TRUE, price, suspends)

\* C21: execute_sell_all is called only with one of the four reasons, in a step
\* in which the condition of that reason holds (a fetched price at or above
\* tp_price, a fetched price at or below sl_price, the time limit exceeded,
\* MAX_RETRIES failed resolutions in a row); a step in which the loop body
\* raises (the comparison with a price that is not a number) calls no sale and
\* ends nothing: the monitor stays registered with its task and sleeps the poll
\* interval.
C21_OnlyExplicitReasonsLiquidate ==
  [][\A id \in TaskIds :
       /\ T'[id].liq # T[id].liq
            => /\ T'[id].liq = T[id].liq + 1 /\ T'[id].pc = "sell"
               /\ \/ /\ T'[id].reason = TAKE_PROFIT
                     /\ \E price \in Prices :
                          PriceReturned(id, price) /\ 10 * price >= T[id].config.tp_price
                  \/ /\ T'[id].reason = STOP_LOSS
                     /\ \E price \in Prices :
                          PriceReturned(id, price) /\ 10 * price <= T[id].config.sl_price
                  \/ /\ T'[id].reason = TIME_LIMIT
                     /\ now - T'[id].config.start_time > T'[id].config.max_duration
                  \/ /\ T'[id].reason = MAX_RETRIES_REASON
                     /\ T'[id].retries = MAX_RETRIES /\ T'[id].fails = MAX_RETRIES
       /\ PriceReturned(id, NaN)
            => /\ T'[id].pc = "poll" /\ T'[id].liq = T[id].liq /\ ~T'[id].cancel
               /\ Registered(T[id].token)' /\ tasks'[T[id].token] = id]_vars

\* one monitor liquidates for its stop loss while the other holds and sleeps
C21_Witness ==
  \E id \in TaskIds, other \in TaskIds :
    /\ T[id].pc = "sell" /\ T[id].reason = STOP_LOSS /\ T[id].liq = 1 /\ ~T[id].cancel
    /\ T[other].pc = "poll" /\ ~T[other].cancel /\ Registered(T[other].token)

\* the argument of the asyncio.sleep a task is suspended in (lines 159, 173)
SleepDelay(task) ==
  IF task.pc = "backoff" THEN task.backoff
  ELSE IF task.pc = "poll" THEN POLL_INTERVAL
  ELSE 0

\* get_price returned None to task id in this step
ResolutionFailed(id) == T'[id].fails = T[id].fails + 1

\* C22: after a failed resolution that leaves retries below MAX_RETRIES the
\* monitor sleeps its current backoff, and when that sleep ends it goes to the
\* next price query at once, with no sleep of the poll interval in between;
\* after a price that triggers nothing it sleeps the poll interval once and
\* then goes to the next price query.
C22_OneSleepBeforeNextQuery ==
  [][\A id \in TaskIds :
       /\ ResolutionFailed(id) /\ T[id].retries + 1 < MAX_RETRIES
            => /\ T'[id].pc = "backoff"
               /\ SleepDelay(T'[id]) =
                    IF T[id].pc = "backoff"
                      THEN next_backoff(T[id].backoff)   \* a sleep ended in this step
                      ELSE T[id].backoff
       /\ \A suspends \in BOOLEAN :
            T[id].pc = "backoff" /\ BackoffWake(id, suspends)
              => /\ T'[id].pc \notin {"poll", "done", "close"}
                 /\ ~time_limit_reached(T[id].config) /\ (moralis_key \/ birdeye_key)
                      => InPriceQuery(T'[id])
       /\ \A price \in Reports :
            /\ T[id].pc \in {"call_m", "call_b"} /\ T'[id] # T[id]
            /\ check_triggers(price, T[id].config) = NO_REASON
            /\ PriceReturned(id, price)
            => T'[id].pc = "poll" /\ SleepDelay(T'[id]) = POLL_INTERVAL
       /\ \A suspends \in BOOLEAN :
            T[id].pc = "poll" /\ PollWake(id, suspends)
              => /\ T'[id].pc \notin {"poll", "backoff", "done", "close"}
                 /\ ~time_limit_reached(T[id].config) => InPriceQuery(T'[id])]_vars

\* a price query that follows one failure and its backoff sleep
C22_Witness ==
  \E id \in TaskIds :
    InPriceQuery(T[id]) /\ T[id].retries = 1 /\ T[id].backoff = 2 /\ ~T[id].cancel

\* every monitor task that was created has ended
AllTasksEnded == Len(T) > 0 /\ \A id \in TaskIds : T[id].pc = "done"

\* C23: once the registry has become empty stop_all is performed without a
\* call from outside.  Only a monitor task performs it, so when the registry
\* is empty and every task has ended, it has been performed: running is
\* cleared and the sessions are closed.
C23_EmptyRegistryShutsDown ==
  AllTasksEnded /\ active_monitors = << >> => ~running /\ sessions_closed

\* the price requests on the network: those of the tasks inside a guarded call
\* and those of the executor threads that outlive their call
RequestsInFlight ==
  {id \in TaskIds : T[id].pc \in {"call_m", "call_b"} \/ T[id].thread}

\* C24: at most SemaphoreLimit price requests are in flight at the same time.
C24_RequestsWithinLimit == Cardinality(RequestsInFlight) <= SemaphoreLimit

\* ---- the permit pool under monitors that are left to run ------------------------
\* the positions are started and their monitors poll, with no stop from outside
NextPool ==
  \/ \E token \in Tokens, args \in StartArgs : Start(token, args)
  \/ \E id \in TaskIds, suspends \in BOOLEAN : TaskStart(id, suspends)
  \/ \E id \in TaskIds, suspends \in BOOLEAN : AcquireMoralis(id, suspends)
  \/ \E id \in TaskIds, found \in BOOLEAN, price \in Reports, suspends \in BOOLEAN :
       MoralisReturn(id, found, price, suspends)
  \/ \E id \in TaskIds, suspends \in BOOLEAN : AcquireBirdeye(id, suspends)
  \/ \E id \in TaskIds, found \in BOOLEAN, price \in Reports, suspends \in BOOLEAN :
       BirdeyeReturn(id, found, price, suspends)
  \/ \E id \in TaskIds, suspends \in BOOLEAN : BackoffWake(id, suspends)
  \/ \E id \in TaskIds, suspends \in BOOLEAN : PollWake(id, suspends)
  \/ \E id \in TaskIds, ok \in BOOLEAN, suspends \in BOOLEAN : SellReturn(id, ok, suspends)

\* a waiting task is handed a permit
Acquire(id) ==
  \E suspends \in BOOLEAN : AcquireMoralis(id, suspends) \/ AcquireBirdeye(id, suspends)

\* a guarded call of task id returns
CallReturns(id) ==
  \E found \in BOOLEAN, price \in Reports, suspends \in BOOLEAN :
    MoralisReturn(id, found, price, suspends) \/ BirdeyeReturn(id, found, price, suspends)

\* every guarded call returns, and asyncio.Semaphore hands a released permit to
\* the waiters in the order they came, so a task that finds a permit free again
\* and again gets one
PoolSpec ==
  /\ Init /\ [][NextPool]_vars
  /\ \A id \in 1..MaxTasks : WF_vars(CallReturns(id)) /\ SF_vars(Acquire(id))

\* C25: a task holds a permit only inside one guarded call, the first source's
\* permit being given back before the second source asks for one; a task that
\* waits for a permit is never stuck (a permit is free or a call that will
\* return holds one), and it gets its permit.
C25_NoDeadlockNoStarvation ==
  /\ [](/\ Outstanding = Cardinality(InGuardedCall)
        /\ \A id \in TaskIds :
             T[id].pc \in {"acq_m", "acq_b"} => semaphore > 0 \/ InGuardedCall # {})
  /\ \A id \in 1..MaxTasks : WaitsForPermit(id) ~> ~WaitsForPermit(id)

\* one monitor waits for the permit for its fallback source while the other is in
\* the call it was waiting for
C25_Witness ==
  \E id \in TaskIds, other \in TaskIds :
    T[id].pc = "acq_b" /\ T[other].pc = "call_m"

\* C26: also after stop_all has run, the task of a position that start_monitoring
\* registered goes into the loop on its first run: it checks the time and asks
\* for a price (or liquidates on the time limit) instead of ending at once.
C26_StartedMonitorPolls ==
  [][\A id \in TaskIds, suspends \in BOOLEAN :
       /\ T[id].pc = "new" /\ Registered(T[id].token)
       /\ T[id].token \in DOMAIN tasks /\ tasks[T[id].token] = id
       /\ TaskStart(id, suspends)
       => T'[id].pc # "done"]_vars

\* the task the registry holds for its own token
OwnsRegistration(id) ==
  T[id].token \in DOMAIN tasks /\ tasks[T[id].token] = id

\* a step of task id on the event loop, the return of its sale included
MonitorStep(id) ==
  TaskStep(id) \/ \E ok \in BOOLEAN, suspends \in BOOLEAN : SellReturn(id, ok, suspends)

\* C27: a step of a monitor that no longer owns the registration of its token
\* (the token was stopped and started again) leaves the new entry in the
\* registry and does not cancel the new task.
C27_CleanupOnlyOwnRegistration ==
  [][\A id \in TaskIds, other \in TaskIds :
       /\ id # other /\ T[id].token = T[other].token
       /\ OwnsRegistration(other) /\ ~T[other].cancel
       /\ T'[id] # T[id] /\ MonitorStep(id)
       => OwnsRegistration(other)' /\ ~T'[other].cancel]_vars

\* C28: a task that is inside execute_sell_all leaves it only by the return of
\* the call, with its success or its failure, whatever stop is called meanwhile.
C28_SaleRunsToItsEnd ==
  [][\A id \in TaskIds :
       T[id].pc = "sell" /\ T'[id].pc # "sell"
       => \E ok \in BOOLEAN, suspends \in BOOLEAN : SellReturn(id, ok, suspends)]_vars

\* ---- the /trade command (tentwentybot.py) -----------------------------------
\* the arguments _setup_position_monitoring gives start_monitoring (lines 237-243):
\* multipliers 1.2 and 0.9 in tenths, max_duration in units of the model's clock
TradeArgs ==
  [entry_price |-> 100, tp_multiplier |-> 12, sl_multiplier |-> 9, max_duration |-> 1]

\* async with JupiterTrader(...) as trader: execute_buy(token) (lines 281-282).
\* bought: the buy transaction went through and _setup_position_monitoring
\* called start_monitoring; otherwise execute_buy stops the token and raises
\* (lines 100-103), which leaves the async with block
TradeCommand(token, bought) ==
  /\ handler = "idle"
  /\ Len(T) < MaxTasks
  /\ IF bought
       THEN Assign(start_monitoring(State, token, TradeArgs)) /\ handler' = "reply"
       ELSE Assign(stop_monitoring(State, token)) /\ handler' = "aexit"

\* reply_text of line 283 returns and the handler leaves the async with block
ReplySent ==
  /\ handler = "reply"
  /\ Assign(State) /\ handler' = "aexit"

\* JupiterTrader.__aexit__ (lines 56-64): the clients are closed, then
\* monitor.stop_all() runs up to its await of PriceMonitor.close
TraderExit ==
  /\ handler = "aexit"
  /\ Assign(StopEach([State EXCEPT !.run = FALSE], DOMAIN active_monitors))
  /\ handler' = "close"

\* PriceMonitor.close returns, __aexit__ ends and the handler returns
HandlerReturns ==
  /\ handler = "close"
  /\ Assign([State EXCEPT !.closed = TRUE]) /\ handler' = "returned"

\* one /trade command and the monitor of its position
NextTrade ==
  \/ \E token \in Tokens, bought \in BOOLEAN : TradeCommand(token, bought)
  \/ ReplySent
  \/ TraderExit
  \/ HandlerReturns
  \/ \E id \in TaskIds, suspends \in BOOLEAN : TaskStart(id, suspends)
  \/ \E id \in TaskIds, found \in BOOLEAN, price \in Reports, suspends \in BOOLEAN :
       MoralisReturn(id, found, price, suspends)
  \/ \E id \in TaskIds, found \in BOOLEAN, price \in Reports, suspends \in BOOLEAN :
       BirdeyeReturn(id, found, price, suspends)
  \/ \E id \in TaskIds, suspends \in BOOLEAN : BackoffWake(id, suspends)
  \/ \E id \in TaskIds, suspends \in BOOLEAN : PollWake(id, suspends)
  \/ \E id \in TaskIds, ok \in BOOLEAN, suspends \in BOOLEAN : SellReturn(id, ok, suspends)
  \/ \E id \in TaskIds, suspends \in BOOLEAN : Cancelled(id, suspends)
  \/ \E id \in TaskIds : ThreadEnds(id)
  \/ Tick

TradeSpec == Init /\ [][NextTrade]_vars

\* C29: once the handler of the /trade command has returned, the position it
\* opened is registered and its monitor task is alive, unless the monitor has
\* called execute_sell_all for it.
C29_MonitoredAfterHandlerReturns ==
  handler = "returned" =>
    \A id \in TaskIds :
      T[id].liq = 0 =>
        /\ Registered(T[id].token) /\ OwnsRegistration(id)
        /\ T[id].pc # "done" /\ ~T[id].cancel
====
